---- MODULE Spec2Model ----
(***************************************************************************)
(* bentoml/utils/module_helper.py: copy_module_and_local_dependencies.      *)
(*                                                                         *)
(* Strings (paths, dotted module names, file bytes) are sequences of       *)
(* one-character strings, so that str.startswith, os.path.split,           *)
(* str.replace and friends are computed the way Python computes them.      *)
(* A value that may be None (module.__file__, project_base_dir) is a       *)
(* record [tag, s] with tag "str", "None" or "absent" (attribute missing). *)
(***************************************************************************)
EXTENDS Integers, Sequences, FiniteSets, TLC

VARIABLES
    pc,                  \* position in copy_module_and_local_dependencies
    module,              \* local `module` (rebound by the loop at line 92)
    destination,         \* argument
    project_base_dir,    \* argument, reassigned at lines 97 / 100
    copy_entire_project, \* argument
    module_name,         \* local, lines 67-71
    module_file,         \* local, line 72
    finder_modules,      \* finder.modules after run_script, lines 81-89
    module_files,        \* local dict, lines 91-114
    todo,                \* names the loop at line 116 has not yet visited
    git,                 \* outcome of the "git rev-parse" subprocess, line 41
    fs,                  \* the filesystem: [files : path -> bytes, dirs : set]
    destExisted,         \* whether destination existed before the call
    exc,                 \* exception that left the function, or NoExc
    ret                  \* returned tuple, or <<>>

vars == <<pc, module, destination, project_base_dir, copy_entire_project,
          module_name, module_file, finder_modules, module_files, todo, git,
          fs, destExisted, exc, ret>>

\* Largest number of modules, besides the script itself, that dependency
\* discovery reports in one run.
MaxDeps == 2

-----------------------------------------------------------------------------
(* Python values *)

None == [tag |-> "None", s |-> <<>>]
NoAttr == [tag |-> "absent", s |-> <<>>]
Str(x) == [tag |-> "str", s |-> x]

\* Truth value of an attribute that holds None or a str.
Truthy(v) == v.tag = "str" /\ v.s # <<>>

NoExc == [type |-> "none", line |-> 0]
Raised(t, l) == [type |-> t, line |-> l]

EmptyMap == [x \in {} |-> <<>>]

-----------------------------------------------------------------------------
(* str and os.path operations used by the module *)

StartsWith(s, p) == Len(p) <= Len(s) /\ SubSeq(s, 1, Len(p)) = p

EndsWith(s, x) == Len(x) <= Len(s) /\ SubSeq(s, Len(s) - Len(x) + 1, Len(s)) = x

\* str.find / str.rfind of a one-character needle, 1-based, 0 when missing.
Find(s, c) ==
    LET I == {i \in 1..Len(s) : s[i] = c}
    IN  IF I = {} THEN 0 ELSE CHOOSE i \in I : \A j \in I : i <= j

RFind(s, c) ==
    LET I == {i \in 1..Len(s) : s[i] = c}
    IN  IF I = {} THEN 0 ELSE CHOOSE i \in I : \A j \in I : i >= j

RECURSIVE RStripSlash(_)
RStripSlash(s) ==
    IF s # <<>> /\ s[Len(s)] = "/" THEN RStripSlash(SubSeq(s, 1, Len(s) - 1)) ELSE s

\* posixpath.split: (head, tail); head loses its trailing slashes unless it
\* is made of slashes only.
OsPathSplit(p) ==
    LET i == RFind(p, "/")
        head == SubSeq(p, 1, i)
        tail == SubSeq(p, i + 1, Len(p))
    IN  <<IF head # <<>> /\ RStripSlash(head) # <<>> THEN RStripSlash(head) ELSE head,
          tail>>

OsPathDirname(p) == OsPathSplit(p)[1]

\* s.split(c)[0]
SplitFirst(s, c) == IF Find(s, c) = 0 THEN s ELSE SubSeq(s, 1, Find(s, c) - 1)

\* s.replace(a, b) for one-character a and b
Replace(s, a, b) == [i \in 1..Len(s) |-> IF s[i] = a THEN b ELSE s[i]]

\* posixpath.join(a, b)
OsPathJoin(a, b) ==
    IF StartsWith(b, <<"/">>) THEN b
    ELSE IF a = <<>> \/ EndsWith(a, <<"/">>) THEN a \o b
    ELSE a \o <<"/">> \o b

OsPathIsAbs(p) == StartsWith(p, <<"/">>)

RECURSIVE SplitSlash(_)
\* path.split('/')
SplitSlash(s) ==
    IF Find(s, "/") = 0 THEN <<s>>
    ELSE <<SubSeq(s, 1, Find(s, "/") - 1)>> \o SplitSlash(SubSeq(s, Find(s, "/") + 1, Len(s)))

RECURSIVE NormComps(_, _, _)
\* the loop of posixpath.normpath over the components
NormComps(comps, new_comps, initial_slashes) ==
    IF comps = <<>> THEN new_comps
    ELSE LET comp == Head(comps)
             dotdot == <<".", ".">>
         IN  IF comp = <<>> \/ comp = <<".">>
             THEN NormComps(Tail(comps), new_comps, initial_slashes)
             ELSE IF comp # dotdot
                     \/ (initial_slashes = 0 /\ new_comps = <<>>)
                     \/ (new_comps # <<>> /\ new_comps[Len(new_comps)] = dotdot)
             THEN NormComps(Tail(comps), Append(new_comps, comp), initial_slashes)
             ELSE IF new_comps # <<>>
             THEN NormComps(Tail(comps), SubSeq(new_comps, 1, Len(new_comps) - 1),
                            initial_slashes)
             ELSE NormComps(Tail(comps), new_comps, initial_slashes)

RECURSIVE JoinSlash(_)
\* '/'.join(comps)
JoinSlash(comps) ==
    IF comps = <<>> THEN <<>>
    ELSE IF Len(comps) = 1 THEN comps[1]
    ELSE comps[1] \o <<"/">> \o JoinSlash(Tail(comps))

\* posixpath.normpath
OsPathNormpath(path) ==
    IF path = <<>> THEN <<".">>
    ELSE LET initial_slashes ==
                 IF ~StartsWith(path, <<"/">>) THEN 0
                 ELSE IF StartsWith(path, <<"/", "/">>) /\ ~StartsWith(path, <<"/", "/", "/">>)
                 THEN 2 ELSE 1
             joined == JoinSlash(NormComps(SplitSlash(path), <<>>, initial_slashes))
             out == [i \in 1..initial_slashes |-> "/"] \o joined
         IN  IF out = <<>> THEN <<".">> ELSE out

\* The process's current working directory.
Cwd == <<"/", "p">>

\* posixpath.abspath
OsPathAbspath(path) ==
    OsPathNormpath(IF OsPathIsAbs(path) THEN path ELSE OsPathJoin(Cwd, path))

-----------------------------------------------------------------------------
(* Names and files of the modelled project *)

MainName == <<"_", "_", "m", "a", "i", "n", "_", "_">>
InitPy == <<"_", "_", "i", "n", "i", "t", "_", "_", ".", "p", "y">>
DotPy == <<".", "p", "y">>
DotPyc == <<".", "p", "y", "c">>

Dir_root == <<"/">>
Dir_p == <<"/", "p">>
Dir_p_a == <<"/", "p", "/", "a">>
Dir_p_b == <<"/", "p", "/", "b">>
Dir_p2 == <<"/", "p", "2">>
Dir_l == <<"/", "l">>
Dir_d == <<"/", "d">>
Dir_d_o == <<"/", "d", "/", "o">>
Dir_d_n == <<"/", "d", "/", "n">>

File_a_init == Dir_p_a \o <<"/">> \o InitPy
File_a_m == Dir_p_a \o <<"/", "m">> \o DotPy
File_a_m_pyc == Dir_p_a \o <<"/", "m">> \o DotPyc
File_a_main == Dir_p_a \o <<"/">> \o MainName \o DotPy
File_b_u == Dir_p_b \o <<"/", "u">> \o DotPy
File_u == Dir_p \o <<"/", "u">> \o DotPy
File_w_pyc == Dir_p \o <<"/", "w">> \o DotPyc
File_v == Dir_p2 \o <<"/", "v">> \o DotPy
File_o == Dir_l \o <<"/", "o">> \o DotPy

Mod(n, f) == [name |-> n, file |-> f]

\* The module the caller's reference resolves to (lines 58-61): an imported
\* module, a package, a module loaded from its .pyc, a script run as
\* __main__ (python b/u.py, python -m a), and the interactive __main__ with
\* __file__ None, empty or not set at all.
Targets ==
    { Mod(<<"a", ".", "m">>, Str(File_a_m)),
      Mod(<<"a", ".", "m">>, Str(File_a_m_pyc)),
      Mod(<<"a">>, Str(File_a_init)),
      Mod(MainName, Str(File_b_u)),
      Mod(MainName, Str(File_a_main)),
      Mod(MainName, None),
      Mod(MainName, Str(<<>>)),
      Mod(MainName, NoAttr) }

\* Modules ModuleFinder may report besides the script: project modules, a
\* module in a sibling directory whose name extends the project's, a library
\* module, a built-in (no file) and a module known only by its .pyc.
Discoverable ==
    { Mod(<<"a">>, Str(File_a_init)),
      Mod(<<"a", ".", "m">>, Str(File_a_m)),
      Mod(<<"u">>, Str(File_u)),
      Mod(<<"w">>, Str(File_w_pyc)),
      Mod(<<"v">>, Str(File_v)),
      Mod(<<"o">>, Str(File_o)),
      Mod(<<"s">>, None) }

ProjectBaseArgs == {None, Str(Dir_p), Str(<<".">>)}

\* The destination argument: a bundle directory, or one nested in it.
Destinations == {Dir_d, Dir_d_n}

\* What "git rev-parse --show-toplevel" prints when it succeeds.
GitTop == Dir_p

SourceFiles ==
    {File_a_init, File_a_m, File_a_m_pyc, File_a_main, File_b_u, File_u,
     File_w_pyc, File_v, File_o}

\* The filesystem before the call; a file's bytes are modelled by its own
\* path, so that no two source files have the same bytes.
InitialFS(existed) ==
    [files |-> [f \in SourceFiles |-> f],
     dirs |-> {Dir_root, Dir_p, Dir_p_a, Dir_p_b, Dir_p2, Dir_l}
                \cup (IF existed THEN {Dir_d, Dir_d_o} ELSE {})]

-----------------------------------------------------------------------------
(* Filesystem operations *)

\* p lies strictly below directory d (path-segment comparison, as the
\* operating system resolves it).
Inside(p, d) ==
    p # d /\ StartsWith(p, IF EndsWith(d, <<"/">>) THEN d ELSE d \o <<"/">>)

RECURSIVE Ancestors(_)
\* d and every directory above it
Ancestors(d) ==
    IF d = <<>> THEN {}
    ELSE IF OsPathDirname(d) = d THEN {d}
    ELSE {d} \cup Ancestors(OsPathDirname(d))

Exists(fsys, p) == p \in fsys.dirs \/ p \in DOMAIN fsys.files

\* Path(d).mkdir(parents=True, exist_ok=True)
MkdirParents(fsys, d) == [fsys EXCEPT !.dirs = @ \cup Ancestors(d)]

\* mkdir fails when d or a directory above it exists as a regular file.
MkdirBlocked(fsys, d) == \E a \in Ancestors(d) : a \in DOMAIN fsys.files

\* open(p, 'wb') followed by write(bytes)
WriteFile(fsys, p, bytes) == [fsys EXCEPT !.files = (p :> bytes) @@ @]

\* shutil.copytree(src, dst): dst must not exist; every directory and file
\* below src is recreated below dst with the same bytes.
CopyTree(fsys, src, dst) ==
    LET asrc == OsPathAbspath(src)
        adst == OsPathAbspath(dst)
        rebase(p) == adst \o SubSeq(p, Len(asrc) + 1, Len(p))
        subdirs == {d \in fsys.dirs : Inside(d, asrc)}
        subfiles == {f \in DOMAIN fsys.files : Inside(f, asrc)}
    IN  IF asrc \notin fsys.dirs THEN [exc |-> Raised("OSError", 50), fs |-> fsys]
        ELSE IF Exists(fsys, adst) THEN [exc |-> Raised("OSError", 50), fs |-> fsys]
        ELSE [exc |-> NoExc,
              fs |-> [dirs |-> fsys.dirs \cup Ancestors(adst) \cup {rebase(d) : d \in subdirs},
                      files |-> [f \in {rebase(g) : g \in subfiles} |->
                                    fsys.files[CHOOSE g \in subfiles : rebase(g) = f]]
                                @@ fsys.files]]

-----------------------------------------------------------------------------
(* The functions of module_helper.py *)

\* _get_module_src_file
GetModuleSrcFile(m) ==
    IF EndsWith(m.file.s, DotPyc) THEN SubSeq(m.file.s, 1, Len(m.file.s) - 1)
    ELSE m.file.s

\* lines 63-65: the value of the guard, or the exception its evaluation raises
ReplCheck(m) ==
    IF m.name # MainName THEN NoExc
    ELSE IF m.file.tag = "absent" THEN Raised("AttributeError", 63)
    ELSE IF ~Truthy(m.file) THEN Raised("BentoMLException", 64)
    ELSE NoExc

\* lines 67-71
ModuleName(m) ==
    IF m.name = MainName /\ Truthy(m.file)
    THEN SplitFirst(OsPathSplit(m.file.s)[2], ".")
    ELSE m.name

\* lines 75-76
EntireProjectCheck(base) ==
    IF base = None THEN Raised("ValueError", 76) ELSE NoExc


\* A whole-project copy that also runs the package-initializer pass.
CopyEntireProjectAddsInits(fsys, base, dst) ==
    LET r == CopyTree(fsys, base, dst)
        walked == {d \in r.fs.dirs : d = dst \/ Inside(d, dst)}
        lacking == {OsPathJoin(d, InitPy) : d \in walked} \ DOMAIN r.fs.files
    IN  IF r.exc # NoExc THEN r
        ELSE [r EXCEPT !.fs.files = [f \in lacking |-> <<>>] @@ @]

\* _copy_entire_project
CopyEntireProject(fsys, base, dst) == CopyTree(fsys, base, dst)

\* _guess_project_base(module). gitres is what happens to the subprocess:
\* "toplevel" (exit 0, prints the top-level directory), "exitfail" (exits
\* non-zero with empty stdout; Popen/communicate raise nothing) or "absent"
\* (Popen raises OSError). OSError is caught by `except IOError` only where
\* IOError is an alias of OSError (Python 3), not on Python 2.
GuessProjectBase(m, gitres, ioerror_is_oserror) ==
    IF gitres = "toplevel" THEN [exc |-> NoExc, val |-> GitTop]
    ELSE IF gitres = "exitfail" THEN [exc |-> NoExc, val |-> <<>>]
    ELSE IF ~ioerror_is_oserror THEN [exc |-> Raised("OSError", 41), val |-> <<>>]
    ELSE IF m.file.tag = "str"
    THEN [exc |-> NoExc, val |-> OsPathDirname(OsPathDirname(m.file.s))]
    ELSE [exc |-> Raised("TypeError", 46), val |-> <<>>]

\* lines 81-89: finder.modules after run_script(module_file). The script is
\* registered as __main__ once it compiles; a SyntaxError in the script
\* leaves finder.modules empty, one in an imported module leaves what was
\* found before it.
FinderModules(script, compiles, deps) ==
    IF ~compiles THEN EmptyMap
    ELSE [n \in {MainName} \cup {d.name : d \in deps} |->
             IF n = MainName THEN Str(script)
             ELSE (CHOOSE d \in deps : d.name = n).file]

\* lines 91-94
CollectModuleFiles(fm) ==
    [n \in {x \in DOMAIN fm : fm[x] # None} |-> GetModuleSrcFile(Mod(n, fm[n]))]

\* lines 103-106
FilterByProjectBase(mf, base) ==
    [n \in {x \in DOMAIN mf : StartsWith(mf[x], base)} |-> mf[n]]

\* line 109
AddTargetModule(mf, name, file) == (name :> file) @@ mf

\* lines 113-114
RemoveMain(mf) == [n \in DOMAIN mf \ {MainName} |-> mf[n]]


\* A target path that ignores whether the source is a package initializer.
TargetFileNoPackage(dest, mod_name, mod_file) ==
    OsPathJoin(dest, Replace(mod_name, ".", "/") \o DotPy)

\* lines 120-124
TargetFile(dest, mod_name, mod_file) ==
    IF OsPathSplit(mod_file)[2] = InitPy
    THEN OsPathJoin(OsPathJoin(dest, Replace(mod_name, ".", "/")), InitPy)
    ELSE OsPathJoin(dest, Replace(mod_name, ".", "/") \o DotPy)


\* An initializer pass that looks at the destination directory only.
TouchInitTopOnly(fsys, dest) ==
    IF dest \in fsys.dirs /\ OsPathJoin(dest, InitPy) \notin DOMAIN fsys.files
    THEN [fsys EXCEPT !.files = (OsPathJoin(dest, InitPy) :> <<>>) @@ @]
    ELSE fsys

\* lines 131-133: os.walk(destination) visits destination and every
\* directory below it; a directory without __init__.py gets an empty one.
TouchInitFiles(fsys, dest) ==
    LET walked == {d \in fsys.dirs : d = dest \/ Inside(d, dest)}
        lacking == {OsPathJoin(d, InitPy) : d \in walked} \ DOMAIN fsys.files
    IN  [fsys EXCEPT !.files = [f \in lacking |-> <<>>] @@ @]

-----------------------------------------------------------------------------
(* copy_module_and_local_dependencies as a state machine *)

GitOutcomes == {"toplevel", "exitfail", "absent"}

BoundedDeps == {D \in SUBSET Discoverable : Cardinality(D) <= MaxDeps}

Init ==
    /\ pc = "start"
    /\ module \in Targets
    /\ destination \in Destinations
    /\ project_base_dir \in ProjectBaseArgs
    /\ copy_entire_project \in BOOLEAN
    /\ module_name = <<>>
    /\ module_file = <<>>
    /\ finder_modules = EmptyMap
    /\ module_files = EmptyMap
    /\ todo = {}
    /\ git = "notrun"
    /\ destExisted \in BOOLEAN
    /\ fs = InitialFS(destExisted)
    /\ exc = NoExc
    /\ ret = <<>>

\* lines 63-78: the interactive-session check, the module's name and file,
\* and the whole-project branch.
Resolve ==
    /\ pc = "start"
    /\ LET e1 == ReplCheck(module)
           name == ModuleName(module)
           file == GetModuleSrcFile(module)
           e2 == EntireProjectCheck(project_base_dir)
           copied == CopyEntireProject(fs, project_base_dir.s, destination)
       IN  IF e1 # NoExc
           THEN /\ pc' = "raised" /\ exc' = e1
                /\ UNCHANGED <<module_name, module_file, fs, ret>>
           ELSE /\ module_name' = name
                /\ module_file' = file
                /\ IF ~copy_entire_project
                   THEN /\ pc' = "discover"
                        /\ UNCHANGED <<fs, exc, ret>>
                   ELSE IF e2 # NoExc
                   THEN /\ pc' = "raised" /\ exc' = e2
                        /\ UNCHANGED <<fs, ret>>
                   ELSE IF copied.exc # NoExc
                   THEN /\ pc' = "raised" /\ exc' = copied.exc
                        /\ fs' = copied.fs
                        /\ UNCHANGED ret
                   ELSE /\ pc' = "returned"
                        /\ fs' = copied.fs
                        /\ ret' = <<name, file>>
                        /\ UNCHANGED exc
    /\ UNCHANGED <<module, destination, project_base_dir, copy_entire_project,
                   finder_modules, module_files, todo, git, destExisted>>

\* lines 80-114: dependency discovery, the project base and the module map.
\* The loop at line 92 rebinds the local `module`, so _guess_project_base
\* receives the module the loop visited last (dict order: any of them), or
\* the target when finder.modules is empty.
Discover ==
    /\ pc = "discover"
    /\ \E compiles \in BOOLEAN :
       \E deps \in (IF compiles THEN BoundedDeps ELSE {{}}) :
       \E gitres \in (IF project_base_dir = None THEN GitOutcomes ELSE {"notrun"}) :
       \E ioerror_is_oserror \in (IF gitres = "absent" THEN BOOLEAN ELSE {TRUE}) :
       LET fm == FinderModules(module_file, compiles, deps)
           collected == CollectModuleFiles(fm)
       IN  IF module_file \notin DOMAIN fs.files
           THEN /\ pc' = "raised" /\ exc' = Raised("IOError", 84)
                /\ UNCHANGED <<module, project_base_dir, finder_modules,
                               module_files, todo, git>>
           ELSE \E last \in (IF DOMAIN fm = {} THEN {module.name} ELSE DOMAIN fm) :
                LET leaked == IF DOMAIN fm = {} THEN module ELSE Mod(last, fm[last])
                    guess == GuessProjectBase(leaked, gitres, ioerror_is_oserror)
                    base == IF project_base_dir = None THEN guess.val
                            ELSE IF ~OsPathIsAbs(project_base_dir.s)
                            THEN OsPathAbspath(project_base_dir.s)
                            ELSE project_base_dir.s
                    final == RemoveMain(AddTargetModule(
                                 FilterByProjectBase(collected, base),
                                 module_name, module_file))
                IN  /\ finder_modules' = fm
                    /\ module' = leaked
                    /\ git' = gitres
                    /\ IF project_base_dir = None /\ guess.exc # NoExc
                       THEN /\ pc' = "raised" /\ exc' = guess.exc
                            /\ module_files' = collected
                            /\ UNCHANGED <<project_base_dir, todo>>
                       ELSE /\ pc' = "copy"
                            /\ project_base_dir' = Str(base)
                            /\ module_files' = final
                            /\ todo' = DOMAIN final
                            /\ UNCHANGED exc
    /\ UNCHANGED <<destination, copy_entire_project, module_name, module_file,
                   fs, destExisted, ret>>

\* lines 116-129, one iteration that completes
CopyModule ==
    /\ pc = "copy"
    /\ \E mod_name \in todo :
       LET mod_file == module_files[mod_name]
           target_file == TargetFile(destination, mod_name, mod_file)
           target_path == OsPathDirname(target_file)
       IN  /\ mod_file \in DOMAIN fs.files
           /\ ~MkdirBlocked(fs, target_path)
           /\ target_file \notin fs.dirs
           /\ fs' = WriteFile(MkdirParents(fs, target_path), target_file,
                              fs.files[mod_file])
           /\ todo' = todo \ {mod_name}
    /\ UNCHANGED <<pc, module, destination, project_base_dir, copy_entire_project,
                   module_name, module_file, finder_modules, module_files, git,
                   destExisted, exc, ret>>


\* A failing iteration that removes what the call had put under destination.
FailedCopyCleansUp(fsys, target_file, stage) ==
    [files |-> [f \in {g \in DOMAIN fsys.files : ~Inside(g, destination)} |-> fsys.files[f]],
     dirs |-> {d \in fsys.dirs : ~Inside(d, destination)}]

\* What the filesystem holds when one iteration raises at `stage`: nothing
\* new when the source cannot be read or the directories cannot be made, the
\* directories when the target cannot be opened, and a truncated target when
\* the write fails.
FailedCopy(fsys, target_file, stage) ==
    IF stage \in {"read", "mkdir"} THEN fsys
    ELSE IF stage = "open" THEN MkdirParents(fsys, OsPathDirname(target_file))
    ELSE WriteFile(MkdirParents(fsys, OsPathDirname(target_file)), target_file, <<>>)

StageLine(stage) ==
    IF stage = "read" THEN 117 ELSE IF stage = "mkdir" THEN 126
    ELSE IF stage = "open" THEN 128 ELSE 129

\* lines 116-129, one iteration that raises: the exception leaves the
\* function (there is no handler), so neither the rest of the loop nor the
\* walk at line 131 runs.
CopyModuleFails ==
    /\ pc = "copy"
    /\ \E mod_name \in todo, stage \in {"read", "mkdir", "open", "write"} :
       LET mod_file == module_files[mod_name]
           target_file == TargetFile(destination, mod_name, mod_file)
           target_path == OsPathDirname(target_file)
       IN  /\ mod_file \notin DOMAIN fs.files => stage = "read"
           /\ (mod_file \in DOMAIN fs.files /\ MkdirBlocked(fs, target_path))
                  => stage \in {"read", "mkdir"}
           /\ fs' = FailedCopy(fs, target_file, stage)
           /\ exc' = Raised("IOError", StageLine(stage))
           /\ pc' = "raised"
    /\ UNCHANGED <<module, destination, project_base_dir, copy_entire_project,
                   module_name, module_file, finder_modules, module_files, todo,
                   git, destExisted, ret>>

\* lines 131-135, after the loop has visited every entry
InitPass ==
    /\ pc = "copy"
    /\ todo = {}
    /\ fs' = TouchInitFiles(fs, destination)
    /\ ret' = <<module_name, module_file>>
    /\ pc' = "returned"
    /\ UNCHANGED <<module, destination, project_base_dir, copy_entire_project,
                   module_name, module_file, finder_modules, module_files, todo,
                   git, destExisted, exc>>

Next == Resolve \/ Discover \/ CopyModule \/ CopyModuleFails \/ InitPass

Spec == Init /\ [][Next]_vars

-----------------------------------------------------------------------------
(* Properties *)

\* The filesystem before the call.
fs0 == InitialFS(destExisted)

\* The directories of the tree rooted at destination.
DestDirs == {d \in fs.dirs : d = destination \/ Inside(d, destination)}

\* The selective branch has built its final module file map.
MapBuilt ==
    /\ ~copy_entire_project
    /\ \/ pc \in {"copy", "returned"}
       \/ pc = "raised" /\ exc.line >= 117

SelectiveSuccess == pc = "returned" /\ ~copy_entire_project

\* p is base or lies below it, compared by path segments.
UnderBase(p, base) == p = base \/ Inside(p, base)

\* Where the bundle holds module n whose source is src: destination, the
\* components of n as nested directories, then <last component>.py, or
\* __init__.py inside the module's own directory for a package initializer.
BundlePath(n, src) ==
    destination \o <<"/">> \o [i \in 1..Len(n) |-> IF n[i] = "." THEN "/" ELSE n[i]]
        \o (IF EndsWith(src, <<"/">> \o InitPy) THEN <<"/">> \o InitPy ELSE DotPy)

\* Path p is a regular file holding exactly bytes b.
FileIs(p, b) == p \in DOMAIN fs.files /\ fs.files[p] = b

\* Some file below destination holds exactly the bytes source file src had.
BytesInDestination(src) ==
    /\ src \in DOMAIN fs0.files
    /\ \E f \in DOMAIN fs.files : Inside(f, destination) /\ fs.files[f] = fs0.files[src]

\* C1: when project_base_dir is not given and the git query fails (non-zero
\* exit, or no executable), the call does not fail because of it and the
\* project base the filter uses is two levels above the target module's file.
C1_GitFailureFallsBack ==
    git \in {"exitfail", "absent"} =>
        /\ exc.line \notin {41, 46}
        /\ project_base_dir = Str(OsPathDirname(OsPathDirname(module_file)))

\* C2: in selective mode the module file map always has the target module
\* under its resolved name, mapped to its source file, and never has an
\* entry named __main__.
C2_TargetInMapNoMain ==
    MapBuilt =>
        /\ module_name \in DOMAIN module_files
        /\ module_files[module_name] = module_file
        /\ MainName \notin DOMAIN module_files

\* C3 as stated: after any successful call, every directory of the tree
\* rooted at destination holds an __init__.py.
C3_EveryDirHasInit ==
    pc = "returned" =>
        \A d \in DestDirs : OsPathJoin(d, InitPy) \in DOMAIN fs.files

\* C3 as amended: after a successful selective-mode call
\* (copy_entire_project=False), every directory of the tree rooted at
\* destination holds an __init__.py.
C3_SelectiveEveryDirHasInit ==
    SelectiveSuccess =>
        \A d \in DestDirs : OsPathJoin(d, InitPy) \in DOMAIN fs.files

\* A selective run ended with a pre-existing directory that received no
\* module file, and a package directory whose initializer was not copied,
\* both now holding an empty __init__.py.
C3_Witness ==
    /\ SelectiveSuccess
    /\ destination = Dir_d
    /\ Dir_d_o \in fs.dirs
    /\ FileIs(OsPathJoin(Dir_d_o, InitPy), <<>>)
    /\ <<"a", ".", "m">> \in DOMAIN module_files
    /\ <<"a">> \notin DOMAIN module_files
    /\ FileIs(OsPathJoin(Dir_d \o <<"/", "a">>, InitPy), <<>>)

\* C4: in selective mode no file derived from a discovered dependency whose
\* path is not under the effective project base is written to destination.
C4_NothingOutsideBaseCopied ==
    MapBuilt =>
        \A n \in DOMAIN finder_modules :
            (finder_modules[n].tag = "str"
             /\ ~UnderBase(GetModuleSrcFile(Mod(n, finder_modules[n])), project_base_dir.s))
                => ~BytesInDestination(GetModuleSrcFile(Mod(n, finder_modules[n])))

\* C5: both configuration errors (entry-point module without a file; whole
\* project copy without project_base_dir) are raised as BentoMLException.
C5_ConfigErrorsAreBentoMLException ==
    (pc = "raised" /\ exc.line \in {64, 76}) => exc.type = "BentoMLException"

\* C6: a call with the __main__ module that has no file always ends in the
\* configuration error, and nothing on the filesystem is touched before it.
C6_ReplAlwaysConfigError ==
    (pc # "start" /\ module.name = MainName /\ ~Truthy(module.file)) =>
        /\ pc = "raised"
        /\ exc.type = "BentoMLException"
        /\ fs = fs0

\* C7: after a successful selective run every (name, file) of the final map
\* has its file at destination/<name with dots as separators>.py, or
\* .../__init__.py for a package initializer, holding the source's bytes.
C7_CopiedFilesMatch ==
    SelectiveSuccess =>
        \A n \in DOMAIN module_files :
            /\ BundlePath(n, module_files[n]) \in DOMAIN fs.files
            /\ fs.files[BundlePath(n, module_files[n])] = fs0.files[module_files[n]]
            /\ fs.files[module_files[n]] = fs0.files[module_files[n]]

\* A selective run ended with a package initializer and a plain dotted
\* module in the map, in a tree where the initializer pass created files.
C7_Witness ==
    /\ SelectiveSuccess
    /\ <<"a">> \in DOMAIN module_files
    /\ <<"a", ".", "m">> \in DOMAIN module_files
    /\ FileIs(OsPathJoin(destination, InitPy), <<>>)

\* C8: with copy_entire_project=True a successful call leaves destination a
\* full recursive copy of project_base_dir (same files, same bytes, nothing
\* added) and returns (module_name, module_file) without dependency
\* discovery, filter or initializer pass; without project_base_dir the call
\* fails and the filesystem is unchanged.
C8_EntireProjectCopy ==
    copy_entire_project =>
        /\ pc \in {"start", "returned", "raised"}
        /\ finder_modules = EmptyMap /\ module_files = EmptyMap /\ git = "notrun"
        /\ (pc # "start" /\ project_base_dir = None) => (pc = "raised" /\ fs = fs0)
        /\ pc = "returned" =>
              LET base == OsPathAbspath(project_base_dir.s)
                  rel(p, root) == SubSeq(p, Len(root) + 1, Len(p))
                  srcFiles == {f \in DOMAIN fs0.files : Inside(f, base)}
                  dstFiles == {f \in DOMAIN fs.files : Inside(f, destination)}
                  srcDirs == {d \in fs0.dirs : Inside(d, base)}
                  dstDirs == {d \in fs.dirs : Inside(d, destination)}
              IN  /\ ret = <<module_name, module_file>>
                  /\ module_name # <<>> /\ module_file \in DOMAIN fs0.files
                  /\ {rel(f, destination) : f \in dstFiles} = {rel(f, base) : f \in srcFiles}
                  /\ {rel(d, destination) : d \in dstDirs} = {rel(d, base) : d \in srcDirs}
                  /\ \A f \in srcFiles :
                        fs.files[destination \o rel(f, base)] = fs0.files[f]
                  /\ destination \in fs.dirs
                  /\ \A f \in DOMAIN fs0.files : fs.files[f] = fs0.files[f]

\* A whole-project copy returned: the nested module arrived, and no
\* package initializer was added to a directory that had none.
C8_Witness ==
    /\ copy_entire_project
    /\ pc = "returned"
    /\ FileIs(destination \o <<"/", "b", "/", "u">> \o DotPy, File_b_u)
    /\ OsPathJoin(destination \o <<"/", "b">>, InitPy) \notin DOMAIN fs.files

\* C9: when reading or writing a module file fails in the selective loop,
\* the error reaches the caller, every module written before it is in
\* destination with its full bytes, no later module is copied and the
\* initializer pass has not run.
C9_NoRollback ==
    (pc = "raised" /\ exc.line \in {117, 126, 128, 129}) =>
        LET written == DOMAIN module_files \ todo
            begun == {n \in todo : BundlePath(n, module_files[n]) \in DOMAIN fs.files}
        IN  /\ ret = <<>>
            /\ \A n \in written :
                  /\ BundlePath(n, module_files[n]) \in DOMAIN fs.files
                  /\ fs.files[BundlePath(n, module_files[n])] = fs0.files[module_files[n]]
            /\ Cardinality(begun) <= 1
            /\ \A n \in begun : fs.files[BundlePath(n, module_files[n])] = <<>>
            /\ \A f \in DOMAIN fs.files \ DOMAIN fs0.files :
                  \E n \in DOMAIN module_files : f = BundlePath(n, module_files[n])

\* The write of a module failed after another module had been written and
\* while a third was still waiting.
C9_Witness ==
    /\ pc = "raised"
    /\ exc.line = 129
    /\ DOMAIN module_files \ todo # {}
    /\ Cardinality(todo) >= 2

\* C10: after a successful selective run every discovered module other than
\* __main__ whose source file is under the effective project base has that
\* file's bytes in destination.
C10_EveryLocalDependencyCopied ==
    SelectiveSuccess =>
        \A n \in DOMAIN finder_modules \ {MainName} :
            (finder_modules[n].tag = "str"
             /\ UnderBase(GetModuleSrcFile(Mod(n, finder_modules[n])), project_base_dir.s))
                => BytesInDestination(GetModuleSrcFile(Mod(n, finder_modules[n])))

====
